---- MODULE Spec2Model ----
(***************************************************************************)
(* A model of bot_saham.py: the market-regime classifier, the scoring and  *)
(* risk/target step of process_batch, and the run driven by main().        *)
(*                                                                         *)
(* Numbers.  Prices, volumes, RSI and StochRSI are integers in their own   *)
(* unit.  The MACD histogram is held in tenths of a point (so -0.5 is -5)  *)
(* and Bollinger width in thousandths.  The levels of the risk/target step *)
(* are exact fixed-point numbers: stop-loss and risk in tenths of a        *)
(* rupiah, take-profits in 1/10000 rupiah, risk/reward ratios in           *)
(* thousandths.  An undefined value (numpy NaN) is the value NaN; every    *)
(* comparison with it is false, as in Python.                              *)
(***************************************************************************)
EXTENDS Integers, Sequences, FiniteSets, TLC

(***************************************************************************)
(* Configuration of the program.                                           *)
(***************************************************************************)
BATCH_SIZE == 50
MIN_PRICE == 100
MIN_VOLUME_AVG == 100000
TOP_N == 15
WEEKLY_BONUS == 2

Regimes == {"BULLISH", "NEUTRAL", "BEARISH"}

\* Mutant: the lookup misses and every regime gets the default.
SCORE_THRESHOLDS_Default(regime) == 6

SCORE_THRESHOLDS(regime) ==
    CASE regime = "BULLISH" -> 5
      [] regime = "NEUTRAL" -> 6
      [] regime = "BEARISH" -> 8
      [] OTHER -> 6

(***************************************************************************)
(* Undefined values and Python's comparisons with them.                    *)
(***************************************************************************)
NaN == -999999

notna(x) == x # NaN

LT(a, b) == notna(a) /\ notna(b) /\ a < b
LE(a, b) == notna(a) /\ notna(b) /\ a <= b
GT(a, b) == LT(b, a)

Min(a, b) == IF b < a THEN b ELSE a

(***************************************************************************)
(* get_market_regime.  b is what the benchmark download produced: whether  *)
(* the fetch or the computation raised, the number of bars, and the last   *)
(* close, SMA50 and SMA200 (NaN where the rolling window holds a NaN).     *)
(***************************************************************************)
\* Mutant: BEARISH as soon as the close is below one of the averages.
get_market_regime_Either(b) ==
    IF b.raises
    THEN [regime |-> "NEUTRAL", note |-> "error"]
    ELSE IF b.bars < 200
    THEN [regime |-> "NEUTRAL", note |-> "no data"]
    ELSE IF GT(b.close, b.sma50) /\ GT(b.close, b.sma200)
            /\ GT(b.sma50, b.sma200)
    THEN [regime |-> "BULLISH", note |-> "snapshot"]
    ELSE IF LT(b.close, b.sma50) \/ LT(b.close, b.sma200)
    THEN [regime |-> "BEARISH", note |-> "snapshot"]
    ELSE [regime |-> "NEUTRAL", note |-> "snapshot"]

get_market_regime(b) ==
    IF b.raises
    THEN [regime |-> "NEUTRAL", note |-> "error"]
    ELSE IF b.bars < 200
    THEN [regime |-> "NEUTRAL", note |-> "no data"]
    ELSE IF GT(b.close, b.sma50) /\ GT(b.close, b.sma200)
            /\ GT(b.sma50, b.sma200)
    THEN [regime |-> "BULLISH", note |-> "snapshot"]
    ELSE IF LT(b.close, b.sma50) /\ LT(b.close, b.sma200)
    THEN [regime |-> "BEARISH", note |-> "snapshot"]
    ELSE [regime |-> "NEUTRAL", note |-> "snapshot"]

(***************************************************************************)
(* The scoring rules of process_batch.  df is the indicator frame of one   *)
(* instrument: df.curr and df.prev are its last two rows, df.hasMACD says  *)
(* whether the histogram column exists, df.nWidth and df.width_pct5 are    *)
(* the number of defined Bollinger widths and their 5th percentile, and    *)
(* df.obv_5d_first is the first of the last five OBV values.               *)
(***************************************************************************)
NoPoints == [pts |-> 0, tags |-> << >>]

RsiRule(df) ==
    IF LT(df.curr.RSI, 30)
    THEN [pts |-> 3, tags |-> <<"RSI Oversold">>]
    ELSE IF LE(30, df.curr.RSI) /\ LT(df.curr.RSI, 40)
    THEN [pts |-> 1, tags |-> <<"RSI Murah">>]
    ELSE NoPoints

\* Mutant: the strengthening test is an `if` of its own, not an `elif`.
MacdRule_NoElif(df) ==
    LET now == df.curr.MACDh
        prv == df.prev.MACDh
        cross == now > 0 /\ prv < 0
        strengthen == now > prv /\ now > -5
    IN  IF df.hasMACD /\ notna(now) /\ notna(prv)
        THEN [pts |-> (IF cross THEN 3 ELSE 0) + (IF strengthen THEN 1 ELSE 0),
              tags |-> IF cross THEN <<"MACD Golden Cross">> ELSE << >>,
              cross |-> cross, strengthen |-> strengthen]
        ELSE [pts |-> 0, tags |-> << >>,
              cross |-> FALSE, strengthen |-> FALSE]

MacdRule(df) ==
    LET now == df.curr.MACDh
        prv == df.prev.MACDh
    IN  IF df.hasMACD /\ notna(now) /\ notna(prv)
        THEN IF now > 0 /\ prv < 0
             THEN [pts |-> 3, tags |-> <<"MACD Golden Cross">>,
                   cross |-> TRUE, strengthen |-> FALSE]
             ELSE IF now > prv /\ now > -5
             THEN [pts |-> 1, tags |-> << >>,
                   cross |-> FALSE, strengthen |-> TRUE]
             ELSE [pts |-> 0, tags |-> << >>,
                   cross |-> FALSE, strengthen |-> FALSE]
        ELSE [pts |-> 0, tags |-> << >>,
              cross |-> FALSE, strengthen |-> FALSE]

VolumeRule(df) ==
    IF notna(df.curr.VOL_MA5) /\ df.curr.VOL_MA5 > 0
       /\ notna(df.curr.Volume) /\ 2 * df.curr.Volume > 3 * df.curr.VOL_MA5
    THEN [pts |-> 2, tags |-> <<"Volume Spike">>]
    ELSE NoPoints

\* Mutant: an undefined SMA200 is filled with 0, as the gate does with the
\* average volume.
TrendRule_FillZero(df) ==
    LET sma == IF notna(df.curr.SMA_200) THEN df.curr.SMA_200 ELSE 0
    IN  IF GT(df.curr.Close, sma)
        THEN [pts |-> 1, tags |-> <<"Uptrend (>MA200)">>]
        ELSE NoPoints

TrendRule(df) ==
    IF notna(df.curr.SMA_200) /\ GT(df.curr.Close, df.curr.SMA_200)
    THEN [pts |-> 1, tags |-> <<"Uptrend (>MA200)">>]
    ELSE NoPoints

BollingerRule(df) ==
    IF notna(df.curr.BB_LOWER) /\ notna(df.prev.BB_LOWER)
    THEN IF notna(df.prev.Close)
            /\ 100 * df.prev.Close <= 101 * df.prev.BB_LOWER
            /\ GT(df.curr.Close, df.curr.BB_LOWER)
         THEN [pts |-> 2, tags |-> <<"BB Lower Bounce">>]
         ELSE IF notna(df.curr.BB_WIDTH) /\ df.nWidth >= 20
                 /\ LE(df.prev.BB_WIDTH, df.width_pct5)
                 /\ GT(df.curr.Close, df.curr.BB_MID)
         THEN [pts |-> 2, tags |-> <<"BB Squeeze Breakout">>]
         ELSE NoPoints
    ELSE NoPoints

StochRule(df) ==
    IF notna(df.curr.STOCH_RSI_K) /\ notna(df.curr.STOCH_RSI_D)
       /\ notna(df.prev.STOCH_RSI_K) /\ notna(df.prev.STOCH_RSI_D)
       /\ df.curr.STOCH_RSI_K < 30
       /\ df.prev.STOCH_RSI_K <= df.prev.STOCH_RSI_D
       /\ df.curr.STOCH_RSI_K > df.curr.STOCH_RSI_D
    THEN [pts |-> 2, tags |-> <<"StochRSI Cross Up">>]
    ELSE NoPoints

ObvRule(df) ==
    IF notna(df.curr.OBV) /\ notna(df.curr.OBV_MA5)
       /\ df.curr.OBV > df.curr.OBV_MA5
       /\ GT(df.curr.OBV, df.obv_5d_first)
    THEN [pts |-> 1, tags |-> <<"OBV Rising">>]
    ELSE NoPoints

EmaRule(df) ==
    IF notna(df.curr.EMA_20) /\ GT(df.curr.Close, df.curr.EMA_20)
    THEN [pts |-> 1, tags |-> <<"Above EMA20">>]
    ELSE NoPoints

(***************************************************************************)
(* The liquidity gate of process_batch: an undefined 20-bar average volume *)
(* counts as 0.                                                            *)
(***************************************************************************)
avg_vol_20(df) == IF notna(df.curr.VOL_MA20) THEN df.curr.VOL_MA20 ELSE 0

\* Mutant: rejected only when both price and volume are too low.
LiquidityReject_Both(df) ==
    LT(df.curr.Close, MIN_PRICE) /\ avg_vol_20(df) < MIN_VOLUME_AVG

LiquidityReject(df) ==
    LT(df.curr.Close, MIN_PRICE) \/ avg_vol_20(df) < MIN_VOLUME_AVG

(***************************************************************************)
(* The eight rules in the order process_batch evaluates them.              *)
(***************************************************************************)
Rules(df) ==
    LET m == MacdRule(df)
    IN  << RsiRule(df), [pts |-> m.pts, tags |-> m.tags],
           VolumeRule(df), TrendRule(df), BollingerRule(df),
           StochRule(df), ObvRule(df), EmaRule(df) >>

RECURSIVE SumPts(_)
SumPts(rs) == IF rs = << >> THEN 0 ELSE Head(rs).pts + SumPts(Tail(rs))

RECURSIVE AllTags(_)
AllTags(rs) == IF rs = << >> THEN << >> ELSE Head(rs).tags \o AllTags(Tail(rs))

DailyScore(df) == SumPts(Rules(df))
DailyReasons(df) == AllTags(Rules(df))

(***************************************************************************)
(* The risk/target step.  Arithmetic on an undefined value is undefined.   *)
(* c10, stop_loss and risk are in tenths of a rupiah, take_profit_1 and    *)
(* take_profit_2 in 1/10000 rupiah, rr_ratio_1 and rr_ratio_2 in           *)
(* thousandths.                                                            *)
(***************************************************************************)
Num2(a, b, v) == IF notna(a) /\ notna(b) THEN v ELSE NaN

\* Mutant: the higher of the two stops.
PyMin_Max(a, b) == IF GT(b, a) THEN b ELSE a

PyMin(a, b) == IF LT(b, a) THEN b ELSE a

RiskTarget(curr) ==
    LET atr == IF notna(curr.ATR) THEN curr.ATR
               ELSE Num2(curr.High, curr.Low, curr.High - curr.Low)
        c10 == Num2(curr.Close, curr.Close, 10 * curr.Close)
        atr_sl == Num2(c10, atr, c10 - 15 * atr)
        swing_sl == IF notna(curr.SWING_LOW_10) THEN 10 * curr.SWING_LOW_10
                    ELSE atr_sl
        sl0 == PyMin(atr_sl, swing_sl)
        stop_loss == IF LE(sl0, 0)
                     THEN Num2(curr.Close, curr.Close, 9 * curr.Close)
                     ELSE sl0
        risk0 == Num2(c10, stop_loss, c10 - stop_loss)
        risk == IF LE(risk0, 0) THEN Num2(atr, atr, 10 * atr) ELSE risk0
        take_profit_1 == Num2(c10, risk, 1000 * c10 + 1618 * risk)
        take_profit_2 == Num2(c10, risk, 1000 * c10 + 2618 * risk)
        rr_ratio_1 == IF GT(risk, 0) THEN (take_profit_1 - 1000 * c10) \div risk
                      ELSE 0
        rr_ratio_2 == IF GT(risk, 0) THEN (take_profit_2 - 1000 * c10) \div risk
                      ELSE 0
    IN  [sl |-> stop_loss, risk |-> risk, tp1 |-> take_profit_1,
         tp2 |-> take_profit_2, rr1 |-> rr_ratio_1, rr2 |-> rr_ratio_2,
         sl_fallback |-> LE(sl0, 0), risk_fallback |-> LE(risk0, 0)]

(***************************************************************************)
(* One iteration of the loop of process_batch over a frame that            *)
(* calculate_technical returned: the gate, the RSI check, the rules, the   *)
(* risk/target step and the threshold check.  `outcome` is what the        *)
(* iteration did; macd is the branch the MACD rule took; the levels are    *)
(* those the iteration computed, also when the threshold check then drops  *)
(* the instrument.                                                         *)
(***************************************************************************)
NoMacd == [pts |-> 0, tags |-> << >>, cross |-> FALSE, strengthen |-> FALSE]

NoLevels ==
    [sl |-> NaN, risk |-> NaN, tp1 |-> NaN, tp2 |-> NaN, rr1 |-> 0, rr2 |-> 0,
     sl_fallback |-> FALSE, risk_fallback |-> FALSE]

ScoreFrame(df, score_threshold) ==
    IF LiquidityReject(df)
    THEN [outcome |-> "illiquid", score |-> 0, reasons |-> << >>,
          macd |-> NoMacd, levels |-> NoLevels]
    ELSE IF ~notna(df.curr.RSI)
    THEN [outcome |-> "no_rsi", score |-> 0, reasons |-> << >>,
          macd |-> NoMacd, levels |-> NoLevels]
    ELSE LET rules == Rules(df)
             score == SumPts(rules)
         IN  [outcome |-> IF score >= score_threshold
                          THEN "candidate" ELSE "below",
              score |-> score, reasons |-> AllTags(rules),
              macd |-> MacdRule(df), levels |-> RiskTarget(df.curr)]

Candidate(ticker, df, ev) ==
    [symbol |-> ticker, price |-> df.curr.Close, rsi |-> df.curr.RSI,
     score |-> ev.score, sl |-> ev.levels.sl, tp1 |-> ev.levels.tp1,
     tp2 |-> ev.levels.tp2, rr1 |-> ev.levels.rr1, rr2 |-> ev.levels.rr2,
     reasons |-> ev.reasons]

(***************************************************************************)
(* check_weekly_uptrend.  w is what the weekly download produced.          *)
(***************************************************************************)
check_weekly_uptrend(w) ==
    IF w.raises THEN FALSE
    ELSE IF w.bars < 20 THEN FALSE
    ELSE IF ~notna(w.sma20) THEN FALSE
    ELSE GT(w.close, w.sma20)

(***************************************************************************)
(* final_candidates.sort(key=score, reverse=True): Python's sort is        *)
(* stable, so candidates of equal score keep their order.                  *)
(***************************************************************************)
\* The place candidate x of s takes: behind every candidate of higher score
\* and every earlier candidate of the same score.
PlaceOf(s, x) ==
    1 + Cardinality({ y \in 1..Len(s) :
                        \/ s[y].score > s[x].score
                        \/ s[y].score = s[x].score /\ y < x })

\* Mutant: the list is cut without being sorted.
SortByScore_Unsorted(s) == s

SortByScore(s) ==
    LET place == [x \in 1..Len(s) |-> PlaceOf(s, x)]
    IN  [p \in 1..Len(s) |-> s[CHOOSE x \in 1..Len(s) : place[x] = p]]

\* sorted[:15]
TopPicks(sorted) == SubSeq(sorted, 1, Min(TOP_N, Len(sorted)))

(***************************************************************************)
(* Bounds of the model and the inputs it draws.                            *)
(*                                                                         *)
(* The last NumLive tickers of the universe get their data from LiveData,  *)
(* chosen freely when they are processed.  Every ticker before them gets   *)
(* data chosen once per run (fill): a history too short to score, or      *)
(* SteadyFrame for the first TOP_N tickers and a short history for the     *)
(* others.  This keeps a universe longer than one batch, and a candidate   *)
(* list longer than the top-N list, within reach.                          *)
(***************************************************************************)
NumLive == 2

UniverseSizes == {0, 1, NumLive, BATCH_SIZE + 1}

NeutralRow ==
    [Close |-> 1000, High |-> 1010, Low |-> 990, Volume |-> 200000,
     RSI |-> 50, MACDh |-> 0, SMA_200 |-> 1100, EMA_20 |-> 1050, ATR |-> 20,
     VOL_MA5 |-> 200000, VOL_MA20 |-> 200000, OBV |-> 0, OBV_MA5 |-> 0,
     BB_MID |-> 1050, BB_LOWER |-> 900, BB_WIDTH |-> 100,
     STOCH_RSI_K |-> 50, STOCH_RSI_D |-> 50, SWING_LOW_10 |-> 980]

BaseFrame ==
    [curr |-> NeutralRow, prev |-> NeutralRow, hasMACD |-> TRUE,
     nWidth |-> 40, width_pct5 |-> 50, obv_5d_first |-> 0]

\* BaseFrame with the inputs of the gate and of the first three rules set.
Frame(close, vol20, rsi, mnow, mprev, volume) ==
    [BaseFrame EXCEPT !.curr.Close = close, !.curr.VOL_MA20 = vol20,
                      !.curr.RSI = rsi, !.curr.MACDh = mnow,
                      !.prev.MACDh = mprev, !.curr.Volume = volume]

SteadyFrame == Frame(1000, 200000, 25, 3, -2, 200000)

LiveFrames ==
    { Frame(1000, 200000, 25, 0, 0, 500000),
      Frame(1000, 200000, 25, 3, -2, 200000),
      Frame(2000, 200000, 25, 3, -2, 500000),
      Frame(50, 200000, 25, 3, -2, 500000),
      Frame(1000, 50000, 25, 3, -2, 500000),
      Frame(1000, NaN, 25, 3, -2, 500000) }

Data(kind, df) == [kind |-> kind, df |-> df]

Pending == Data("pending", BaseFrame)

LiveData ==
    { Data("missing", BaseFrame), Data("fault", BaseFrame) }
    \cup { Data("frame", f) : f \in LiveFrames }

Fills == {"short", "steady"}

FillData(f, t) ==
    IF f = "steady" /\ t <= TOP_N THEN Data("frame", SteadyFrame)
    ELSE Data("short", BaseFrame)

LiveTickers(size) == {t \in 1..size : t > size - NumLive}

WeeklyData ==
    { [raises |-> TRUE, bars |-> 0, close |-> NaN, sma20 |-> NaN],
      [raises |-> FALSE, bars |-> 19, close |-> 1000, sma20 |-> NaN],
      [raises |-> FALSE, bars |-> 26, close |-> 1000, sma20 |-> 1000],
      [raises |-> FALSE, bars |-> 26, close |-> 1000, sma20 |-> 900] }

ShortWeekly == [raises |-> FALSE, bars |-> 19, close |-> 1000, sma20 |-> NaN]

\* A rolling mean is undefined while its window is not full.
Benchmarks ==
    { b \in [raises : BOOLEAN, bars : {0, 199, 200, 245},
             close : {NaN, 90, 95, 100}, sma50 : {NaN, 90, 95, 100},
             sma200 : {NaN, 90, 95, 100}] :
        /\ b.bars < 200 => b.sma200 = NaN
        /\ b.bars < 50 => b.sma50 = NaN
        /\ b.bars = 0 => b.close = NaN }

NoBenchmark ==
    [raises |-> FALSE, bars |-> 0, close |-> NaN, sma50 |-> NaN, sma200 |-> NaN]

NoResult == [regime |-> "NEUTRAL", note |-> "none"]

NoEval ==
    [outcome |-> "none", score |-> 0, reasons |-> << >>, macd |-> NoMacd,
     levels |-> NoLevels]

(***************************************************************************)
(* State of a run.                                                         *)
(*   pc                where main() is                                     *)
(*   market_regime     result of get_market_regime                         *)
(*   universe          what reading bei_universe.csv came to               *)
(*   n                 len(unique_tickers); the tickers are 1..n           *)
(*   fill              the data of the tickers that are not live           *)
(*   i                 start of the current batch (0-based, as in main)    *)
(*   j                 the ticker process_batch is at                      *)
(*   candidates, failed_count   locals of process_batch                    *)
(*   final_candidates, total_failed, top_picks   locals of main            *)
(*   k                 the candidate the weekly loop is at                 *)
(*   reports           the messages handed to Telegram, by kind            *)
(*   exit_code         -1 while running, then the process's exit status    *)
(* History, for stating properties:                                        *)
(*   seen              the data each live ticker was processed with        *)
(*   failed_batches    starts of the batches whose download raised         *)
(*   weekly_log        the calls of check_weekly_uptrend and their results *)
(* Inputs and results of the functions checked on their own:               *)
(*   ihsg, classified  benchmark data and get_market_regime's result       *)
(*   df, ev            a frame and what one loop iteration made of it      *)
(*   history           the downloaded bars of one instrument, oldest first *)
(***************************************************************************)
VARIABLES pc, market_regime, universe, n, fill, i, j, candidates, failed_count,
          final_candidates, total_failed, k, top_picks, reports, exit_code,
          seen, failed_batches, weekly_log, ihsg, classified, df, ev,
          history

vars == << pc, market_regime, universe, n, fill, i, j, candidates, failed_count,
           final_candidates, total_failed, k, top_picks, reports, exit_code,
           seen, failed_batches, weekly_log, ihsg, classified, df, ev,
           history >>

runVars == << universe, n, fill, i, j, candidates, failed_count, final_candidates,
              total_failed, k, top_picks, seen, failed_batches, weekly_log >>

loopVars == << n, fill, i, j, candidates, failed_count, final_candidates,
               total_failed, k, top_picks, seen, failed_batches, weekly_log >>

pureVars == << ihsg, classified, df, ev, history >>

Init ==
    /\ pc = "start"
    /\ market_regime = "NEUTRAL"
    /\ universe = "unread"
    /\ n = 0
    /\ fill = "short"
    /\ i = 0
    /\ j = 0
    /\ candidates = << >>
    /\ failed_count = 0
    /\ final_candidates = << >>
    /\ total_failed = 0
    /\ k = 0
    /\ top_picks = << >>
    /\ reports = << >>
    /\ exit_code = -1
    /\ seen = << >>
    /\ failed_batches = {}
    /\ weekly_log = << >>
    /\ ihsg = NoBenchmark
    /\ classified = NoResult
    /\ df = BaseFrame
    /\ ev = NoEval
    /\ history = << >>

score_threshold == SCORE_THRESHOLDS(market_regime)

BatchEnd == Min(i + BATCH_SIZE, n)

BatchLen == BatchEnd - i

Input(t) == IF t \in DOMAIN seen THEN seen[t] ELSE FillData(fill, t)

(***************************************************************************)
(* main(), step 1: the market regime.                                      *)
(***************************************************************************)
GetMarketRegime ==
    /\ pc = "start"
    /\ \E b \in Benchmarks : market_regime' = get_market_regime(b).regime
    /\ pc' = "load"
    /\ UNCHANGED << runVars, reports, exit_code, pureVars >>

(***************************************************************************)
(* main(), step 2: the universe.  A missing file is caught in main(): the  *)
(* alert is sent and main() returns.  Any other exception of read_csv or   *)
(* of the symbol column leaves main() and reaches the handler at the       *)
(* bottom of the file: alert, sys.exit(1).                                 *)
(***************************************************************************)
LoadUniverse ==
    /\ pc = "load"
    /\ \E size \in UniverseSizes, f \in Fills :
          /\ n' = size
          /\ fill' = f
          /\ seen' = [t \in LiveTickers(size) |-> Pending]
    /\ universe' = "loaded"
    /\ pc' = "batch"
    /\ UNCHANGED << market_regime, i, j, candidates, failed_count,
                    final_candidates, total_failed, k, top_picks, reports,
                    exit_code, failed_batches, weekly_log, pureVars >>

LoadFileNotFound ==
    /\ pc = "load"
    /\ universe' = "missing"
    /\ reports' = Append(reports, "fatal")
    /\ pc' = "done"
    /\ exit_code' = 0
    /\ UNCHANGED << market_regime, loopVars, pureVars >>

LoadRaises ==
    /\ pc = "load"
    /\ universe' = "unreadable"
    /\ reports' = Append(reports, "fatal")
    /\ pc' = "done"
    /\ exit_code' = 1
    /\ UNCHANGED << market_regime, loopVars, pureVars >>

(***************************************************************************)
(* main(), step 3, and process_batch.                                      *)
(***************************************************************************)
DownloadRaises ==
    /\ pc = "batch"
    /\ i < n
    /\ total_failed' = total_failed + BatchLen
    /\ failed_batches' = failed_batches \cup {i}
    /\ i' = i + BATCH_SIZE
    /\ UNCHANGED << pc, market_regime, universe, n, fill, j, candidates, failed_count,
                    final_candidates, k, top_picks, reports, exit_code, seen,
                    weekly_log, pureVars >>

StartBatch ==
    /\ pc = "batch"
    /\ i < n
    /\ candidates' = << >>
    /\ failed_count' = 0
    /\ j' = i + 1
    /\ pc' = "ticker"
    /\ UNCHANGED << market_regime, universe, n, fill, i, final_candidates, total_failed,
                    k, top_picks, reports, exit_code, seen, failed_batches,
                    weekly_log, pureVars >>

\* The data the provider has for ticker t.
DataFor(t) == IF t \in DOMAIN seen THEN LiveData ELSE {FillData(fill, t)}

Record(t, d) == IF t \in DOMAIN seen THEN [seen EXCEPT ![t] = d] ELSE seen

NextTicker(d) ==
    /\ j' = j + 1
    /\ seen' = Record(j, d)
    /\ UNCHANGED << pc, market_regime, universe, n, fill, i, final_candidates,
                    total_failed, k, top_picks, reports, exit_code,
                    failed_batches, weekly_log, pureVars >>

\* data[ticker] raises KeyError (only a batch of several tickers indexes
\* the download by ticker).
TickerMissing ==
    /\ pc = "ticker"
    /\ j <= BatchEnd
    /\ BatchLen # 1
    /\ \E d \in DataFor(j) :
          /\ d.kind = "missing"
          /\ failed_count' = failed_count + 1
          /\ UNCHANGED candidates
          /\ NextTicker(d)

\* df.empty or len(df) < 60; a batch of one ticker the provider has nothing
\* for gets an empty frame.
TickerSkipped ==
    /\ pc = "ticker"
    /\ j <= BatchEnd
    /\ \E d \in DataFor(j) :
          /\ d.kind = "short" \/ (d.kind = "missing" /\ BatchLen = 1)
          /\ UNCHANGED << candidates, failed_count >>
          /\ NextTicker(d)

\* Mutant: the handler sits around the loop, so a fault ends the batch.
TickerFault_EndsBatch ==
    /\ pc = "ticker"
    /\ j <= BatchEnd
    /\ \E d \in DataFor(j) :
          /\ d.kind = "fault"
          /\ failed_count' = BatchLen
          /\ candidates' = << >>
          /\ j' = BatchEnd + 1
          /\ seen' = Record(j, d)
    /\ UNCHANGED << pc, market_regime, universe, n, fill, i,
                    final_candidates, total_failed, k, top_picks, reports,
                    exit_code, failed_batches, weekly_log, pureVars >>

\* Any exception inside the loop body.
TickerFault ==
    /\ pc = "ticker"
    /\ j <= BatchEnd
    /\ \E d \in DataFor(j) :
          /\ d.kind = "fault"
          /\ failed_count' = failed_count + 1
          /\ UNCHANGED candidates
          /\ NextTicker(d)

TickerScored ==
    /\ pc = "ticker"
    /\ j <= BatchEnd
    /\ \E d \in DataFor(j) :
          /\ d.kind = "frame"
          /\ LET e == ScoreFrame(d.df, score_threshold)
             IN  candidates' = IF e.outcome = "candidate"
                               THEN Append(candidates, Candidate(j, d.df, e))
                               ELSE candidates
          /\ UNCHANGED failed_count
          /\ NextTicker(d)

ReturnBatch ==
    /\ pc = "ticker"
    /\ j > BatchEnd
    /\ final_candidates' = final_candidates \o candidates
    /\ total_failed' = total_failed + failed_count
    /\ i' = i + BATCH_SIZE
    /\ pc' = "batch"
    /\ UNCHANGED << market_regime, universe, n, fill, j, candidates, failed_count, k,
                    top_picks, reports, exit_code, seen, failed_batches,
                    weekly_log, pureVars >>

BatchesDone ==
    /\ pc = "batch"
    /\ i >= n
    /\ k' = 1
    /\ pc' = "weekly"
    /\ UNCHANGED << market_regime, universe, n, fill, i, j, candidates, failed_count,
                    final_candidates, total_failed, top_picks, reports,
                    exit_code, seen, failed_batches, weekly_log, pureVars >>

(***************************************************************************)
(* main(), step 4: the weekly confirmation of candidate k.                 *)
(***************************************************************************)
WeeklyFor(t) == IF t \in DOMAIN seen THEN WeeklyData ELSE {ShortWeekly}

\* Mutant: the bonus lands twice.
Confirm_Twice(c) ==
    [c EXCEPT !.score = c.score + WEEKLY_BONUS + WEEKLY_BONUS,
              !.reasons = c.reasons \o <<"Weekly Uptrend", "Weekly Uptrend">>]

Confirm(c) ==
    [c EXCEPT !.score = c.score + WEEKLY_BONUS,
              !.reasons = Append(c.reasons, "Weekly Uptrend")]

WeeklyConfirm ==
    /\ pc = "weekly"
    /\ k <= Len(final_candidates)
    /\ \E w \in WeeklyFor(final_candidates[k].symbol) :
          LET up == check_weekly_uptrend(w)
          IN  /\ final_candidates' =
                    IF up THEN [final_candidates EXCEPT ![k] = Confirm(@)]
                    ELSE final_candidates
              /\ weekly_log' =
                    Append(weekly_log,
                           [symbol |-> final_candidates[k].symbol, w |-> w,
                            up |-> up])
    /\ k' = k + 1
    /\ UNCHANGED << pc, market_regime, universe, n, fill, i, j, candidates, failed_count,
                    total_failed, top_picks, reports, exit_code, seen,
                    failed_batches, pureVars >>

(***************************************************************************)
(* main(), step 5: sort and keep the top picks.                            *)
(***************************************************************************)
Rank ==
    /\ pc = "weekly"
    /\ k > Len(final_candidates)
    /\ final_candidates' = SortByScore(final_candidates)
    /\ top_picks' = TopPicks(final_candidates')
    /\ pc' = "report"
    /\ UNCHANGED << market_regime, universe, n, fill, i, j, candidates, failed_count,
                    total_failed, k, reports, exit_code, seen, failed_batches,
                    weekly_log, pureVars >>

(***************************************************************************)
(* main(), step 6: the report; main() returns and the process exits 0.     *)
(***************************************************************************)
\* Mutant: a run with failures sends nothing.
SendReport_Gated ==
    /\ pc = "report"
    /\ reports' = IF total_failed > 0 THEN reports
                  ELSE Append(reports, IF top_picks # << >> THEN "success"
                                       ELSE "no_result")
    /\ pc' = "done"
    /\ exit_code' = 0
    /\ UNCHANGED << market_regime, runVars, pureVars >>

SendReport ==
    /\ pc = "report"
    /\ reports' = Append(reports, IF top_picks # << >> THEN "success"
                                  ELSE "no_result")
    /\ pc' = "done"
    /\ exit_code' = 0
    /\ UNCHANGED << market_regime, runVars, pureVars >>

Next ==
    \/ GetMarketRegime
    \/ LoadUniverse
    \/ LoadFileNotFound
    \/ LoadRaises
    \/ DownloadRaises
    \/ StartBatch
    \/ TickerMissing
    \/ TickerSkipped
    \/ TickerFault
    \/ TickerScored
    \/ ReturnBatch
    \/ BatchesDone
    \/ WeeklyConfirm
    \/ Rank
    \/ SendReport

Spec == Init /\ [][Next]_vars

(***************************************************************************)
(* get_market_regime on its own: the benchmark data is drawn first, then   *)
(* classified.                                                             *)
(***************************************************************************)
InitRegime ==
    /\ pc = "ihsg"
    /\ ihsg \in Benchmarks
    /\ market_regime = "NEUTRAL"
    /\ universe = "unread"
    /\ n = 0
    /\ fill = "short"
    /\ i = 0
    /\ j = 0
    /\ candidates = << >>
    /\ failed_count = 0
    /\ final_candidates = << >>
    /\ total_failed = 0
    /\ k = 0
    /\ top_picks = << >>
    /\ reports = << >>
    /\ exit_code = -1
    /\ seen = << >>
    /\ failed_batches = {}
    /\ weekly_log = << >>
    /\ classified = NoResult
    /\ df = BaseFrame
    /\ ev = NoEval
    /\ history = << >>

ClassifyBenchmark ==
    /\ pc = "ihsg"
    /\ classified' = get_market_regime(ihsg)
    /\ market_regime' = get_market_regime(ihsg).regime
    /\ pc' = "load"
    /\ UNCHANGED << runVars, reports, exit_code, ihsg, df, ev, history >>

NextRegime == ClassifyBenchmark

SpecRegime == InitRegime /\ [][NextRegime]_vars

(***************************************************************************)
(* One iteration of process_batch on its own: a batch of the single ticker *)
(* 1 whose frame df is drawn from FrameSpace, under each regime.           *)
(***************************************************************************)
MacdValues == {NaN, -10, -6, -5, -4, -1, 0, 1, 10}

GateFrames ==
    { Frame(c, v, r, m[1], m[2], vol) :
        c \in {NaN, 50, 99, 100, 1000},
        v \in {NaN, 0, 99999, 100000, 200000},
        r \in {NaN, 25, 35, 50},
        m \in {<<0, 0>>, <<3, -2>>},
        vol \in {200000, 500000} }

MacdFrames ==
    { [Frame(1000, 200000, r, a, b, 200000) EXCEPT !.hasMACD = h] :
        a \in MacdValues, b \in MacdValues, r \in {25, 50}, h \in BOOLEAN }

RiskFrames ==
    { [Frame(c, 200000, 25, 3, -2, 200000) EXCEPT
          !.curr.ATR = a, !.curr.SWING_LOW_10 = s,
          !.curr.Low = c, !.curr.High = IF h = NaN THEN NaN ELSE c + h] :
        c \in {100, 150, 1000},
        a \in {NaN, 0, 2, 20, 100, 800},
        s \in {NaN, 0, 90, 140, 990, 1000, 1200},
        h \in {NaN, 0, 4, 30} }

BollingerCases ==
    { [pl |-> 900, cl |-> 900, pw |-> 100, cw |-> 100, nw |-> 40],
      [pl |-> 995, cl |-> 900, pw |-> 100, cw |-> 100, nw |-> 40],
      [pl |-> 900, cl |-> 900, pw |-> 40, cw |-> 100, nw |-> 40],
      [pl |-> 900, cl |-> 900, pw |-> 40, cw |-> 100, nw |-> 19],
      [pl |-> 900, cl |-> 900, pw |-> 40, cw |-> NaN, nw |-> 40],
      [pl |-> NaN, cl |-> 900, pw |-> 40, cw |-> 100, nw |-> 40] }

StochCases ==
    { [ck |-> 50, cd |-> 50, pk |-> 50, pd |-> 50],
      [ck |-> 20, cd |-> 15, pk |-> 10, pd |-> 12],
      [ck |-> 20, cd |-> 15, pk |-> NaN, pd |-> 12] }

ObvCases ==
    { [obv |-> 0, ma |-> 0, first |-> 0],
      [obv |-> 100, ma |-> 50, first |-> 10],
      [obv |-> 100, ma |-> 50, first |-> 150],
      [obv |-> 100, ma |-> NaN, first |-> 10] }

RuleFrames ==
    { [BaseFrame EXCEPT
          !.curr.RSI = 35, !.curr.BB_MID = 950,
          !.curr.SMA_200 = t, !.curr.EMA_20 = e,
          !.prev.BB_LOWER = b.pl, !.curr.BB_LOWER = b.cl,
          !.prev.BB_WIDTH = b.pw, !.curr.BB_WIDTH = b.cw, !.nWidth = b.nw,
          !.curr.STOCH_RSI_K = st.ck, !.curr.STOCH_RSI_D = st.cd,
          !.prev.STOCH_RSI_K = st.pk, !.prev.STOCH_RSI_D = st.pd,
          !.curr.OBV = o.obv, !.curr.OBV_MA5 = o.ma, !.obv_5d_first = o.first] :
        t \in {NaN, 900, 1100}, e \in {NaN, 900, 1100},
        b \in BollingerCases, st \in StochCases, o \in ObvCases }

\* Frames in which every rule fires: the Bollinger rule by its lower-band
\* bounce in the first, by its squeeze breakout in the second.
FiringFrames ==
    { [BaseFrame EXCEPT
          !.curr.RSI = 25, !.curr.MACDh = 3, !.prev.MACDh = -2,
          !.curr.Volume = 500000, !.curr.SMA_200 = 900, !.curr.EMA_20 = 900,
          !.prev.BB_LOWER = pl, !.curr.BB_LOWER = 900, !.curr.BB_MID = 950,
          !.prev.BB_WIDTH = 40,
          !.curr.STOCH_RSI_K = 20, !.curr.STOCH_RSI_D = 15,
          !.prev.STOCH_RSI_K = 10, !.prev.STOCH_RSI_D = 12,
          !.curr.OBV = 100, !.curr.OBV_MA5 = 50, !.obv_5d_first = 10] :
        pl \in {995, 900} }

\* The columns of a row that are undefined together: a rolling window that
\* holds an undefined value leaves every column computed from it undefined
\* (the Bollinger bands and width; OBV and its mean).
NoColumns == [curr |-> {}, prev |-> {}]

UndefinedColumns ==
    { [curr |-> r.curr \cup m.curr \cup v.curr \cup t.curr \cup b.curr
                   \cup s.curr \cup o.curr \cup e.curr,
       prev |-> r.prev \cup m.prev \cup v.prev \cup t.prev \cup b.prev
                   \cup s.prev \cup o.prev \cup e.prev] :
        r \in {NoColumns, [curr |-> {"RSI"}, prev |-> {}]},
        m \in {NoColumns, [curr |-> {"MACDh"}, prev |-> {}],
               [curr |-> {}, prev |-> {"MACDh"}]},
        v \in {NoColumns, [curr |-> {"VOL_MA5"}, prev |-> {}]},
        t \in {NoColumns, [curr |-> {"SMA_200"}, prev |-> {}]},
        b \in {NoColumns,
               [curr |-> {"BB_LOWER", "BB_MID", "BB_WIDTH"}, prev |-> {}],
               [curr |-> {}, prev |-> {"BB_LOWER", "BB_MID", "BB_WIDTH"}]},
        s \in {NoColumns, [curr |-> {"STOCH_RSI_K", "STOCH_RSI_D"}, prev |-> {}],
               [curr |-> {"STOCH_RSI_D"}, prev |-> {}],
               [curr |-> {}, prev |-> {"STOCH_RSI_K", "STOCH_RSI_D"}],
               [curr |-> {}, prev |-> {"STOCH_RSI_D"}]},
        o \in {NoColumns, [curr |-> {"OBV_MA5"}, prev |-> {}],
               [curr |-> {"OBV", "OBV_MA5"}, prev |-> {}]},
        e \in {NoColumns, [curr |-> {"EMA_20"}, prev |-> {}]} }

\* The row with the columns of `cols` undefined.
WithUndefined(row, cols) ==
    [c \in DOMAIN row |-> IF c \in cols THEN NaN ELSE row[c]]

UndefinedFrames ==
    { [f EXCEPT !.curr = WithUndefined(f.curr, u.curr),
                !.prev = WithUndefined(f.prev, u.prev),
                !.obv_5d_first = IF "OBV" \in u.curr THEN NaN ELSE @] :
        f \in FiringFrames, u \in UndefinedColumns }

FrameSpace ==
    GateFrames \cup MacdFrames \cup RiskFrames \cup RuleFrames
    \cup UndefinedFrames

InitScore ==
    /\ pc = "ticker"
    /\ df \in FrameSpace
    /\ market_regime \in Regimes
    /\ universe = "loaded"
    /\ n = 1
    /\ fill = "short"
    /\ i = 0
    /\ j = 1
    /\ candidates = << >>
    /\ failed_count = 0
    /\ final_candidates = << >>
    /\ total_failed = 0
    /\ k = 0
    /\ top_picks = << >>
    /\ reports = << >>
    /\ exit_code = -1
    /\ seen = << >>
    /\ failed_batches = {}
    /\ weekly_log = << >>
    /\ ihsg = NoBenchmark
    /\ classified = NoResult
    /\ ev = NoEval
    /\ history = << >>

ScoreInstrument ==
    /\ pc = "ticker"
    /\ j <= BatchEnd
    /\ LET e == ScoreFrame(df, score_threshold)
       IN  /\ ev' = e
           /\ candidates' = IF e.outcome = "candidate"
                            THEN Append(candidates, Candidate(j, df, e))
                            ELSE candidates
    /\ j' = j + 1
    /\ UNCHANGED << pc, market_regime, universe, n, fill, i, failed_count,
                    final_candidates, total_failed, k, top_picks, reports,
                    exit_code, seen, failed_batches, weekly_log, ihsg,
                    classified, df, history >>

NextScore == ScoreInstrument

SpecScore == InitScore /\ [][NextScore]_vars

(***************************************************************************)
(* The volume indicators of calculate_technical (VOL_MA5, VOL_MA20, OBV,   *)
(* OBV_MA5) computed from the bars of an instrument, and the iteration of  *)
(* process_batch over the frame they give.  The other columns of the frame *)
(* are those of SteadyFrame.  A bar is its close and its volume; the       *)
(* volumes drawn are multiples of 20, so that the rolling means are whole  *)
(* numbers.                                                                *)
(***************************************************************************)
MIN_BARS == 60

\* Mutant: a bar whose close did not fall adds its volume.
obv_append_FlatAdds(last, before, bar) ==
    IF LT(bar.Close, before.Close)
    THEN Num2(last, bar.Volume, last - bar.Volume)
    ELSE Num2(last, bar.Volume, last + bar.Volume)

\* The body of the OBV loop: the value appended for `bar`, `before` being
\* the bar before it and `last` the value appended for that one.
obv_append(last, before, bar) ==
    IF GT(bar.Close, before.Close)
    THEN Num2(last, bar.Volume, last + bar.Volume)
    ELSE IF LT(bar.Close, before.Close)
    THEN Num2(last, bar.Volume, last - bar.Volume)
    ELSE last

\* The list obv after the bars 1..t of h.
RECURSIVE obv(_, _)
obv(h, t) ==
    IF t = 1 THEN <<0>>
    ELSE LET o == obv(h, t - 1)
         IN  Append(o, obv_append(o[t - 1], h[t - 1], h[t]))

RECURSIVE rolling_sum(_, _, _)
rolling_sum(col, t, window) ==
    IF window = 0 THEN 0 ELSE col[t] + rolling_sum(col, t - 1, window - 1)

\* col.rolling(window).mean() at row t: undefined while the window is not
\* full or holds an undefined value.
rolling_mean(col, t, window) ==
    IF t < window \/ \E x \in (t - window + 1)..t : col[x] = NaN THEN NaN
    ELSE rolling_sum(col, t, window) \div window

calculate_technical(h) ==
    LET len == Len(h)
        OBV == obv(h, len)
        Volume == [t \in 1..len |-> h[t].Volume]
        row(base, t) ==
            [base EXCEPT !.Close = h[t].Close, !.Volume = h[t].Volume,
                         !.VOL_MA5 = rolling_mean(Volume, t, 5),
                         !.VOL_MA20 = rolling_mean(Volume, t, 20),
                         !.OBV = OBV[t],
                         !.OBV_MA5 = rolling_mean(OBV, t, 5)]
    IN  [SteadyFrame EXCEPT !.curr = row(SteadyFrame.curr, len),
                            !.prev = row(SteadyFrame.prev, len - 1),
                            !.obv_5d_first = OBV[len - 4]]

TailLen == 5

Bar(close, volume) == [Close |-> close, Volume |-> volume]

TailBars == { Bar(c, v) : c \in {1000, 1010}, v \in {100000, 300000} }

\* The bars before the last TailLen: flat, or rising by 1 a day.
Warmup(kind) ==
    [t \in 1..(MIN_BARS - TailLen) |->
        Bar(IF kind = "rising" THEN 950 + t ELSE 1000, 100000)]

Histories ==
    { Warmup(kind) : kind \in {"flat", "rising"} }
    \cup { Warmup(kind) \o tail :
             kind \in {"flat", "rising"}, tail \in [1..TailLen -> TailBars] }

InitSeries ==
    /\ pc = "technical"
    /\ history \in Histories
    /\ market_regime \in Regimes
    /\ universe = "loaded"
    /\ n = 1
    /\ fill = "short"
    /\ i = 0
    /\ j = 1
    /\ candidates = << >>
    /\ failed_count = 0
    /\ final_candidates = << >>
    /\ total_failed = 0
    /\ k = 0
    /\ top_picks = << >>
    /\ reports = << >>
    /\ exit_code = -1
    /\ seen = << >>
    /\ failed_batches = {}
    /\ weekly_log = << >>
    /\ ihsg = NoBenchmark
    /\ classified = NoResult
    /\ df = BaseFrame
    /\ ev = NoEval

\* len(df) < 60: the instrument is passed over.
ShortHistory ==
    /\ pc = "technical"
    /\ j <= BatchEnd
    /\ Len(history) < MIN_BARS
    /\ pc' = "ticker"
    /\ j' = j + 1
    /\ UNCHANGED << market_regime, universe, n, fill, i, candidates,
                    failed_count, final_candidates, total_failed, k,
                    top_picks, reports, exit_code, seen, failed_batches,
                    weekly_log, pureVars >>

CalculateTechnical ==
    /\ pc = "technical"
    /\ j <= BatchEnd
    /\ Len(history) >= MIN_BARS
    /\ df' = calculate_technical(history)
    /\ pc' = "ticker"
    /\ UNCHANGED << market_regime, runVars, reports, exit_code, ihsg,
                    classified, ev, history >>

NextSeries ==
    \/ ShortHistory
    \/ CalculateTechnical
    \/ ScoreInstrument

SpecSeries == InitSeries /\ [][NextSeries]_vars

(***************************************************************************)
(* Properties.                                                             *)
(***************************************************************************)
Symbols(s) == { s[x].symbol : x \in 1..Len(s) }

Listed == Symbols(candidates) \cup Symbols(final_candidates)
             \cup Symbols(top_picks)

\* The frame ticker t was scored with, for a ticker that had one.
HasFrame(t) == Input(t).kind = "frame"
FrameOf(t) == Input(t).df

\* The start of the batch ticker t belongs to, and whether process_batch
\* is through with t.
BatchStartOf(t) == ((t - 1) \div BATCH_SIZE) * BATCH_SIZE

Handled(t) ==
    /\ BatchStartOf(t) \notin failed_batches
    /\ \/ BatchStartOf(t) < i
       \/ BatchStartOf(t) = i /\ pc = "ticker" /\ t < j

\* C1: an instrument whose latest close is below MIN_PRICE (100) or whose
\* 20-bar average volume is below MIN_VOLUME_AVG (100,000), an undefined
\* average counting as 0, is never in the candidate list of process_batch,
\* in the candidates of the run or in the top picks, whatever its score.
BelowLiquidity(f) ==
    \/ f.curr.Close # NaN /\ f.curr.Close < 100
    \/ f.curr.VOL_MA20 = NaN
    \/ f.curr.VOL_MA20 < 100000

C1_LiquidityVeto ==
    \A t \in DOMAIN seen :
        (HasFrame(t) /\ BelowLiquidity(FrameOf(t))) => t \notin Listed

\* An illiquid instrument whose rows earn 8 points or more was processed,
\* in a run that reported other instruments.
C1_Witness ==
    /\ pc = "done"
    /\ top_picks # << >>
    /\ \E t \in DOMAIN seen :
          /\ HasFrame(t)
          /\ BelowLiquidity(FrameOf(t))
          /\ DailyScore(FrameOf(t)) >= 8

\* C2: every candidate, in process_batch, in the run's list and in the top
\* picks, has a daily score at or above the threshold of the active regime
\* (BULLISH 5, NEUTRAL 6, BEARISH 8), and so has every instrument handed to
\* the weekly check: an instrument below the threshold is dropped and is
\* never brought back.
RegimeThreshold ==
    IF market_regime = "BULLISH" THEN 5
    ELSE IF market_regime = "NEUTRAL" THEN 6
    ELSE 8

WeeklyChecked == { weekly_log[x].symbol : x \in 1..Len(weekly_log) }

C2_ThresholdFilter ==
    \A t \in Listed \cup WeeklyChecked :
        HasFrame(t) /\ DailyScore(FrameOf(t)) >= RegimeThreshold

\* An instrument that passed the gate with a daily score below the
\* threshold, which the weekly bonus would have lifted to it, was dropped
\* in a run that reported other instruments.
C2_Witness ==
    /\ pc = "done"
    /\ top_picks # << >>
    /\ \E t \in DOMAIN seen :
          /\ HasFrame(t)
          /\ ~BelowLiquidity(FrameOf(t))
          /\ FrameOf(t).curr.RSI # NaN
          /\ DailyScore(FrameOf(t)) < RegimeThreshold
          /\ DailyScore(FrameOf(t)) + 2 >= RegimeThreshold
          /\ t \notin Listed \cup WeeklyChecked

\* C3: get_market_regime always returns one of BULLISH, NEUTRAL, BEARISH.
\* With 200 bars or more and no exception it returns BULLISH iff
\* close > SMA50, close > SMA200 and SMA50 > SMA200, BEARISH iff
\* close < SMA50 and close < SMA200, and NEUTRAL otherwise; with fewer than
\* 200 bars, or when the fetch or the computation raises, it returns NEUTRAL
\* with a note, and the run goes on to load the universe.
Above(a, b) == a # NaN /\ b # NaN /\ a > b

BullishData(b) ==
    Above(b.close, b.sma50) /\ Above(b.close, b.sma200)
        /\ Above(b.sma50, b.sma200)

BearishData(b) == Above(b.sma50, b.close) /\ Above(b.sma200, b.close)

C3_RegimeClassifier ==
    pc # "ihsg" =>
        /\ pc = "load"
        /\ market_regime = classified.regime
        /\ classified.regime \in {"BULLISH", "NEUTRAL", "BEARISH"}
        /\ ihsg.raises =>
              classified = [regime |-> "NEUTRAL", note |-> "error"]
        /\ (~ihsg.raises /\ ihsg.bars < 200) =>
              classified = [regime |-> "NEUTRAL", note |-> "no data"]
        /\ (~ihsg.raises /\ ihsg.bars >= 200) =>
              /\ classified.note = "snapshot"
              /\ classified.regime = "BULLISH" <=> BullishData(ihsg)
              /\ classified.regime = "BEARISH" <=> BearishData(ihsg)
              /\ classified.regime = "NEUTRAL" <=>
                    (~BullishData(ihsg) /\ ~BearishData(ihsg))

\* A benchmark of exactly 200 bars, close below SMA50 and SMA200, was
\* classified BEARISH.
C3_Witness ==
    /\ pc = "load"
    /\ ~ihsg.raises
    /\ ihsg.bars = 200
    /\ BearishData(ihsg)
    /\ classified.regime = "BEARISH"

\* C4: for a current row with ATR > 0 and a positive close, the levels of
\* the risk/target step satisfy stopLoss < close < TP1 < TP2 and RR1 < RR2,
\* whether the swing low is defined or not and whether or not a fallback
\* replaced the stop-loss or the risk.
Scored == ev.outcome \in {"candidate", "below"}

C4_RiskTargetOrder ==
    (Scored /\ df.curr.ATR # NaN /\ df.curr.ATR > 0
            /\ df.curr.Close # NaN /\ df.curr.Close > 0) =>
        /\ 1000 * ev.levels.sl < 10000 * df.curr.Close
        /\ 10000 * df.curr.Close < ev.levels.tp1
        /\ ev.levels.tp1 < ev.levels.tp2
        /\ ev.levels.rr1 < ev.levels.rr2
        /\ candidates # << >> =>
              /\ 1000 * candidates[1].sl < 10000 * candidates[1].price
              /\ 10000 * candidates[1].price < candidates[1].tp1
              /\ candidates[1].tp1 < candidates[1].tp2
              /\ candidates[1].rr1 < candidates[1].rr2

\* A candidate with ATR > 0 and no swing low whose ATR stop fell to 0 or
\* below, so that 0.9 x close replaced it.
C4_Witness ==
    /\ ev.outcome = "candidate"
    /\ candidates # << >>
    /\ df.curr.ATR # NaN /\ df.curr.ATR > 0
    /\ df.curr.SWING_LOW_10 = NaN
    /\ ev.levels.sl_fallback
    /\ ev.levels.sl = 9 * df.curr.Close

\* C10: for two consecutive bars with defined histogram values, the
\* golden-cross rule fires iff the previous histogram is below 0 and the
\* current one above 0; the golden-cross rule and the strengthening rule
\* never both fire; and the MACD rule adds at most 3 points.
C10_MacdGoldenCross ==
    (Scored /\ df.hasMACD /\ df.curr.MACDh # NaN /\ df.prev.MACDh # NaN) =>
        /\ ev.macd.cross <=> (df.prev.MACDh < 0 /\ df.curr.MACDh > 0)
        /\ ~(ev.macd.cross /\ ev.macd.strengthen)
        /\ ev.macd.pts <= 3
        /\ ev.macd.pts = (IF ev.macd.cross THEN 3 ELSE 0)
                           + (IF ev.macd.strengthen THEN 1 ELSE 0)

\* The histogram went from below 0 to above 0, which also meets the
\* condition of the strengthening rule, and only the golden cross fired.
C10_Witness ==
    /\ Scored
    /\ df.hasMACD
    /\ df.prev.MACDh # NaN /\ df.prev.MACDh < 0
    /\ df.curr.MACDh > 0
    /\ ev.macd.cross
    /\ ev.macd.pts = 3

\* C5: when the ticker universe cannot be loaded, the run sends the fatal
\* alert, processes no instrument, sends no screening report, and the
\* process exits with a non-zero status.
NotLoaded == universe \in {"missing", "unreadable"}

C5_FatalExitsNonZero ==
    (pc = "done" /\ NotLoaded) =>
        /\ reports = <<"fatal">>
        /\ j = 0
        /\ final_candidates = << >>
        /\ weekly_log = << >>
        /\ exit_code > 0

\* C6: every run ends, and ends with exactly one report: "success" when a
\* candidate remains, "no_result" when none remains, "fatal" when the run
\* aborted; no run sends a second report, and the number of failed
\* instruments and batches changes nothing in this.
ReportAtEnd ==
    pc = "done" =>
        /\ Len(reports) = 1
        /\ NotLoaded => reports[1] = "fatal"
        /\ (universe = "loaded" /\ final_candidates # << >>) =>
              reports[1] = "success"
        /\ (universe = "loaded" /\ final_candidates = << >>) =>
              reports[1] = "no_result"

C6_ExactlyOneReport ==
    /\ [](Len(reports) <= 1 /\ ReportAtEnd)
    /\ <>(pc = "done")

\* A run in which a batch download and an instrument failed ended with a
\* success report.
C6_Witness ==
    /\ pc = "done"
    /\ failed_batches # {}
    /\ \E t \in DOMAIN seen : seen[t].kind = "fault"
    /\ total_failed >= 2
    /\ reports = <<"success">>

\* C7: a fault while process_batch handles one instrument is counted as one
\* failure and ends that instrument only: every other instrument of a
\* downloaded batch is handled, in this batch and in the later ones, every
\* instrument that qualifies is kept as a candidate, and the run does not
\* abort.
FaultsOf(s) ==
    Cardinality({ t \in DOMAIN seen :
        /\ BatchStartOf(t) = s
        /\ \/ seen[t].kind = "fault"
           \/ seen[t].kind = "missing" /\ Min(s + BATCH_SIZE, n) - s # 1 })

RECURSIVE FailuresUpTo(_)
FailuresUpTo(s) ==
    IF s < 0 THEN 0
    ELSE FailuresUpTo(s - BATCH_SIZE)
           + (IF s \in failed_batches THEN Min(s + BATCH_SIZE, n) - s
              ELSE FaultsOf(s))

Qualifies(t) ==
    /\ HasFrame(t)
    /\ ScoreFrame(FrameOf(t), score_threshold).outcome = "candidate"

C7_FaultIsolation ==
    universe = "loaded" =>
        /\ \A t \in DOMAIN seen : Handled(t) => seen[t] # Pending
        /\ \A t \in 1..n :
              (Handled(t) /\ Qualifies(t)) =>
                  IF BatchStartOf(t) = i /\ pc = "ticker"
                  THEN t \in Symbols(candidates)
                  ELSE t \in Symbols(final_candidates)
        /\ pc = "ticker" =>
              /\ failed_count = FaultsOf(i)
              /\ total_failed = FailuresUpTo(i - BATCH_SIZE)
        /\ pc # "ticker" => total_failed = FailuresUpTo(i - BATCH_SIZE)
        /\ exit_code # 1
        /\ "fatal" \notin { reports[x] : x \in 1..Len(reports) }

\* The last instrument of the first batch raised; the candidates collected
\* before it were kept, and the instrument of the next batch was scored and
\* reported.
C7_Witness ==
    /\ pc = "done"
    /\ n > BATCH_SIZE
    /\ BATCH_SIZE \in DOMAIN seen
    /\ seen[BATCH_SIZE].kind = "fault"
    /\ 1 \in Symbols(final_candidates)
    /\ n \in Symbols(top_picks)
    /\ total_failed = 1

\* C8: the top picks are the candidates sorted by final score, highest
\* first, and cut to the first 15: at most 15 entries, scores that never
\* increase along the list, every entry a candidate, and no candidate left
\* out with a score above that of an entry.
Ranked == universe = "loaded" /\ pc \in {"report", "done"}

C8_TopPicks ==
    Ranked =>
        /\ Len(top_picks) <= 15
        /\ Len(top_picks) = Min(15, Len(final_candidates))
        /\ \A x \in 1..Len(top_picks) - 1 :
              top_picks[x].score >= top_picks[x + 1].score
        /\ \A x \in 1..Len(top_picks) :
              \E y \in 1..Len(final_candidates) :
                  top_picks[x] = final_candidates[y]
        /\ \A x, y \in 1..Len(top_picks) :
              x # y => top_picks[x].symbol # top_picks[y].symbol
        /\ \A y \in 1..Len(final_candidates) :
              final_candidates[y].symbol \notin Symbols(top_picks) =>
                  \A x \in 1..Len(top_picks) :
                      final_candidates[y].score <= top_picks[x].score

\* More than 15 candidates; the last instrument of the universe, scored
\* after all the others, heads the top picks and others are left out.
C8_Witness ==
    /\ pc = "done"
    /\ Len(final_candidates) > 15
    /\ Len(top_picks) = 15
    /\ top_picks[1].symbol = n
    /\ n > 15

\* C9: a candidate changes only in the weekly step and at most once: it is
\* as created (weekly check false, raised, or fewer than 20 weekly bars),
\* or as created with 2 added to the score and one tag appended; symbol,
\* price, RSI, stop-loss, take-profits and ratios never change, and no
\* candidate is checked or given the bonus twice.
Created(t) ==
    Candidate(t, FrameOf(t), ScoreFrame(FrameOf(t), score_threshold))

Boosted(t) ==
    LET c == Created(t)
    IN  [symbol |-> c.symbol, price |-> c.price, rsi |-> c.rsi,
         score |-> c.score + 2, sl |-> c.sl, tp1 |-> c.tp1, tp2 |-> c.tp2,
         rr1 |-> c.rr1, rr2 |-> c.rr2,
         reasons |-> c.reasons \o <<"Weekly Uptrend">>]

Checks(t) == { x \in 1..Len(weekly_log) : weekly_log[x].symbol = t }

GotBonus(t) == \E x \in Checks(t) : weekly_log[x].up

AsExpected(c) ==
    /\ HasFrame(c.symbol)
    /\ c = IF GotBonus(c.symbol) THEN Boosted(c.symbol)
           ELSE Created(c.symbol)

C9_WeeklyBonusOnce ==
    /\ \A x \in 1..Len(candidates) :
          candidates[x] = Created(candidates[x].symbol)
    /\ \A x \in 1..Len(final_candidates) : AsExpected(final_candidates[x])
    /\ \A x \in 1..Len(top_picks) :
          \E y \in 1..Len(final_candidates) :
              top_picks[x] = final_candidates[y]
    /\ \A t \in WeeklyChecked : Cardinality(Checks(t)) = 1
    /\ \A x \in 1..Len(weekly_log) :
          LET w == weekly_log[x].w
          IN  /\ (w.raises \/ w.bars < 20) => ~weekly_log[x].up
              /\ weekly_log[x].up <=>
                    (~w.raises /\ w.bars >= 20 /\ w.sma20 # NaN
                        /\ w.close # NaN /\ w.close > w.sma20)
    /\ pc \in {"report", "done"} =>
          WeeklyChecked = Symbols(final_candidates)

\* Two candidates reached the report, one with the bonus and one whose
\* weekly history was too short for it.
C9_Witness ==
    /\ pc = "done"
    /\ \E x, y \in 1..Len(top_picks) :
          /\ GotBonus(top_picks[x].symbol)
          /\ top_picks[x].score = Created(top_picks[x].symbol).score + 2
          /\ ~GotBonus(top_picks[y].symbol)
          /\ top_picks[y].symbol \in DOMAIN seen
          /\ top_picks[y] = Created(top_picks[y].symbol)

\* C11: for an instrument that passed the liquidity gate, an undefined
\* current RSI, and nothing else, rejects it.  With RSI defined the
\* iteration completes (the instrument is scored, no fault), and each rule
\* that reads an undefined value (MACD histogram of either row, current
\* volume MA5, current SMA200, lower Bollinger band of either row, a
\* StochRSI %K or %D of either row, current OBV or OBV-MA5, current EMA20)
\* adds 0 points and no tag, while the score and the tags are exactly those
\* of the remaining rules; the squeeze breakout never fires on an undefined
\* width or mid band.
Lacks(r, f) ==
    CASE r = 1 -> FALSE
      [] r = 2 -> f.curr.MACDh = NaN \/ f.prev.MACDh = NaN
      [] r = 3 -> f.curr.VOL_MA5 = NaN
      [] r = 4 -> f.curr.SMA_200 = NaN
      [] r = 5 -> f.curr.BB_LOWER = NaN \/ f.prev.BB_LOWER = NaN
      [] r = 6 -> \/ f.curr.STOCH_RSI_K = NaN \/ f.curr.STOCH_RSI_D = NaN
                  \/ f.prev.STOCH_RSI_K = NaN \/ f.prev.STOCH_RSI_D = NaN
      [] r = 7 -> f.curr.OBV = NaN \/ f.curr.OBV_MA5 = NaN
      [] r = 8 -> f.curr.EMA_20 = NaN

TagsOf(r) ==
    CASE r = 1 -> {"RSI Oversold", "RSI Murah"}
      [] r = 2 -> {"MACD Golden Cross"}
      [] r = 3 -> {"Volume Spike"}
      [] r = 4 -> {"Uptrend (>MA200)"}
      [] r = 5 -> {"BB Lower Bounce", "BB Squeeze Breakout"}
      [] r = 6 -> {"StochRSI Cross Up"}
      [] r = 7 -> {"OBV Rising"}
      [] r = 8 -> {"Above EMA20"}

Tagged(reasons) == { reasons[x] : x \in 1..Len(reasons) }

Remaining(f) ==
    LET rules == Rules(f)
    IN  [r \in 1..8 |-> IF Lacks(r, f) THEN NoPoints ELSE rules[r]]

C11_UndefinedDisablesOneRule ==
    (ev.outcome # "none" /\ ~BelowLiquidity(df)) =>
        /\ ev.outcome = "no_rsi" <=> df.curr.RSI = NaN
        /\ df.curr.RSI # NaN =>
              /\ Scored
              /\ \A r \in 2..8 :
                    Lacks(r, df) => Tagged(ev.reasons) \cap TagsOf(r) = {}
              /\ ev.score = SumPts(Remaining(df))
              /\ ev.reasons = AllTags(Remaining(df))
              /\ (df.curr.BB_WIDTH = NaN \/ df.prev.BB_WIDTH = NaN
                     \/ df.curr.BB_MID = NaN) =>
                    "BB Squeeze Breakout" \notin Tagged(ev.reasons)
              /\ ev.outcome = "candidate" =>
                    /\ candidates # << >>
                    /\ candidates[1].score = SumPts(Remaining(df))
                    /\ candidates[1].reasons = AllTags(Remaining(df))

\* An instrument with an undefined SMA200, an undefined previous MACD
\* histogram and an undefined StochRSI %D became a candidate on the points
\* of its other rules: RSI 3, volume 2, Bollinger 2, OBV 1, EMA20 1.
C11_Witness ==
    /\ ev.outcome = "candidate"
    /\ df.curr.SMA_200 = NaN
    /\ df.prev.MACDh = NaN
    /\ df.curr.STOCH_RSI_D = NaN
    /\ ev.score = 9
    /\ Tagged(ev.reasons) =
          {"RSI Oversold", "Volume Spike", "BB Lower Bounce", "OBV Rising",
           "Above EMA20"}
    /\ candidates # << >>
    /\ candidates[1].score = 9

\* The on-balance volume of the spec, as a total: the volumes of the bars
\* 2..t of h whose close rose, less those of the bars whose close fell.
RECURSIVE VolumeOf(_, _)
VolumeOf(h, bars) ==
    IF bars = {} THEN 0
    ELSE LET x == CHOOSE y \in bars : TRUE
         IN  h[x].Volume + VolumeOf(h, bars \ {x})

Rose(h, t) == { x \in 2..t : h[x].Close > h[x - 1].Close }

Fell(h, t) == { x \in 2..t : h[x].Close < h[x - 1].Close }

NetVolume(h, t) == VolumeOf(h, Rose(h, t)) - VolumeOf(h, Fell(h, t))

SeriesScored == Scored /\ Len(history) >= 60

\* The OBV column is the spec's running total, and the rule fired, adding
\* its tag and one point to what the other rules gave, iff the current OBV
\* is above the mean of the last five and above the OBV `back` bars ago.
ObvRisingIff(back) ==
    LET len == Len(history)
        now == NetVolume(history, len)
        last5 == [x \in 0..4 |-> NetVolume(history, len - x)]
        rising ==
            /\ 5 * now > last5[0] + last5[1] + last5[2] + last5[3] + last5[4]
            /\ NetVolume(history, len - back) < now
        others == [r \in 1..8 |-> IF r = 7 THEN NoPoints ELSE Rules(df)[r]]
    IN  /\ df.curr.OBV = now
        /\ df.prev.OBV = last5[1]
        /\ "OBV Rising" \in Tagged(ev.reasons) <=> rising
        /\ ev.score = SumPts(others) + (IF rising THEN 1 ELSE 0)

\* C12, as claimed: the OBV-rising rule adds +1 iff the current OBV is
\* greater than the current OBV-MA5 and the OBV 5 bars ago is less than the
\* current OBV, OBV being the running total seeded at 0 that adds the
\* bar's volume when close rose, subtracts it when close fell and is
\* unchanged when close is flat.
C12_ObvFiveBarsAgo == SeriesScored => ObvRisingIff(5)

\* C12, amended: the same, the second comparison being with the first OBV
\* of the last five bars, which is the OBV 4 bars before the current bar.
C12_ObvFirstOfLastFive == SeriesScored => ObvRisingIff(4)

\* The rule fired on a series with rising, falling and flat bars whose OBV
\* 5 bars ago was not below the current OBV.
C12_Witness ==
    /\ SeriesScored
    /\ "OBV Rising" \in Tagged(ev.reasons)
    /\ df.curr.OBV > df.obv_5d_first
    /\ NetVolume(history, Len(history) - 5) >= df.curr.OBV
    /\ Rose(history, Len(history)) # {}
    /\ Fell(history, Len(history)) # {}
    /\ \E x \in 2..Len(history) : history[x].Close = history[x - 1].Close

(***************************************************************************)
(* The run under fairness: main() is sequential code whose calls return    *)
(* (each network call has a timeout), so a step that can be taken is       *)
(* taken.                                                                  *)
(***************************************************************************)
LiveSpec == Init /\ [][Next]_vars /\ WF_vars(Next)

====
